---- MODULE Spec2Model ----
(***************************************************************************)
(* Model of producer/core/data_access.py: the DiskStorage chain store      *)
(* (in-memory head, pickled store file, timestamped payload files) and     *)
(* the read_production_data / read_consumption_data payload builders.      *)
(*                                                                         *)
(* Disk state (payload files, sub-directories, the store file) is shared;  *)
(* every DiskStorage instance has its own __memory and program counter.    *)
(* The handlers are cut at the file-system calls they make, so that an I/O *)
(* error or a process stop can fall between any two of them.               *)
(***************************************************************************)
EXTENDS Integers, Sequences, FiniteSets, TLC

\* ---------------------------------------------------------------- bounds
MaxCalls == 2           \* add_to_chain calls and chain assignments started
MaxNow == 2             \* last clock tick
MaxIncidents == 1       \* file-system errors and process stops

\* the clock ticks twice within one second of the '%H:%M:%S' file-name mask
TicksPerSecond == 2

Instances == {1, 2}     \* identities of DiskStorage objects

\* ------------------------------------------------------- values and types
None == [kind |-> "None"]

ZeroHash == <<"0x0">>

ProductionDir == "production/"
ConsumptionDir == "consumption/"

\* ChainFile(file, timestamp)
ChainFile(file, timestamp) ==
    [kind |-> "ChainFile", file |-> file, timestamp |-> timestamp]

\* ChainLink(data, last_link)
ChainLink(data, last_link) ==
    [kind |-> "ChainLink", data |-> data, last_link |-> last_link]

\* the links reachable from a head through last_link, newest first
RECURSIVE Links(_)
Links(chain) ==
    IF chain.kind = "None" THEN <<>>
    ELSE <<chain.data>> \o Links(chain.last_link)

\* bool(self.chain): a ChainLink object is truthy, None is not
Truthy(obj) == obj.kind # "None"

\* ------------------------------------------------------------ time, names
\* strftime('%Y-%m-%d-%H:%M:%S'): the clock cut to whole seconds
Strftime(t) == t \div TicksPerSecond

\* prefix + strftime mask: the payload file's path
FileName(prefix, t) == <<prefix, Strftime(t)>>

\* ------------------------------------------------------------ json, hash
\* json.dump(data.to_dict(), file): the complete text of a payload
JsonDump(data) == <<"json", data>>

\* what is left of the text when the write stops early
JsonCut(data) == <<"json-cut", data>>

\* the text of a payload file just opened with 'w+'
EmptyText == <<"empty", None>>

\* a path no file has been created at
Absent == <<"absent", None>>

\* every path the file-name mask can produce within the clock's range
Paths == {ProductionDir, ConsumptionDir} \X (0..(MaxNow \div TicksPerSecond))

\* 'Qm' + base58(sha1(bytes)): SHA-1 taken as injective on the bytes
HashAddress(bytes) == <<"Qm", bytes>>

\* ---------------------------------------------------------------- pickle
\* The pickle stream as opcodes.  A ChainLink pickles as its ChainFile
\* (file, timestamp), then its last_link, then BUILD; protocol 4+ wraps
\* everything after PROTO in one FRAME that announces its length, except
\* for streams under four bytes (None), which are not framed.
\* a pickler that does not follow last_link
PickleBodyShallow(obj) ==
    IF obj.kind = "None" THEN << <<"NONE">> >>
    ELSE << <<"NEWOBJ">>,
            <<"file", obj.data.file[1], obj.data.file[2]>>,
            <<"timestamp", obj.data.timestamp>>, <<"NONE">>, <<"BUILD">> >>

RECURSIVE PickleBody(_)
PickleBody(obj) ==
    IF obj.kind = "None" THEN << <<"NONE">> >>
    ELSE << <<"NEWOBJ">>,
            <<"file", obj.data.file[1], obj.data.file[2]>>,
            <<"timestamp", obj.data.timestamp>> >>
         \o PickleBody(obj.last_link) \o << <<"BUILD">> >>

PickleDumps(obj) ==
    IF obj.kind = "None"
    THEN << <<"PROTO">>, <<"NONE">>, <<"STOP">> >>
    ELSE LET body == PickleBody(obj) \o << <<"STOP">> >>
         IN  << <<"PROTO">>, <<"FRAME", Len(body)>> >> \o body

\* the object whose pickle starts at opcode i, and the position after it
RECURSIVE PickleParse(_, _)
PickleParse(ops, i) ==
    IF ops[i][1] = "NONE" THEN [obj |-> None, next |-> i + 1]
    ELSE LET rest == PickleParse(ops, i + 3)
         IN  [obj |-> ChainLink(ChainFile(<<ops[i + 1][2], ops[i + 1][3]>>,
                                          ops[i + 2][2]),
                                rest.obj),
              next |-> rest.next + 1]

\* pickle.load(file): the object, or the exception it raises.  Reading an
\* opcode at the end of the input raises EOFError; a frame shorter than
\* announced raises UnpicklingError ("pickle data was truncated").
PickleLoad(ops) ==
    IF Len(ops) = 0 THEN [raised |-> "EOFError", obj |-> None]
    ELSE IF Len(ops) = 1 THEN [raised |-> "EOFError", obj |-> None]
    ELSE IF ops[2][1] = "FRAME"
    THEN IF Len(ops) - 2 < ops[2][2]
         THEN [raised |-> "UnpicklingError", obj |-> None]
         ELSE [raised |-> "no", obj |-> PickleParse(ops, 3).obj]
    ELSE IF Len(ops) < 3 THEN [raised |-> "EOFError", obj |-> None]
    ELSE [raised |-> "no", obj |-> PickleParse(ops, 2).obj]

\* where a store write that has not finished can leave the stream: after
\* PROTO, or inside the frame (after its header)
Cuts(ops) == {k \in 1..2 : k < Len(ops)}

\* ------------------------------------------------------ payload builders
Kilo == 1000            \* pow(10, 3)
Co2Denom == 10 * Kilo   \* accumulated_co2 is held as a count of 1/Co2Denom

\* int(x) for the rational num/den: truncation toward zero
IntTrunc(num, den) ==
    IF num >= 0 THEN num \div den ELSE -((-num) \div den)

\* the outcomes of ExternalDataSource.read_state()
Raises == [kind |-> "raises"]
NotExternalData == [kind |-> "other"]
EnergyData(energy, is_accumulated) ==
    [kind |-> "ExternalData", energy |-> energy,
     is_accumulated |-> is_accumulated]
CarbonData(accumulated_co2) ==
    [kind |-> "ExternalData", accumulated_co2 |-> accumulated_co2]

\* __fetch_input_data: the reading, or None for anything else
FetchInputData(outcome) ==
    IF outcome.kind = "ExternalData" THEN outcome ELSE None

\* a builder that records the sentinel instead of last_hash
ReadProductionDataNoHash(energy_source, carbon_source, last_hash, last_state) ==
    LET raw_energy == FetchInputData(energy_source)
        raw_carbon_emitted == FetchInputData(carbon_source)
    IN  [kind |-> "ProductionFileData",
         raw_energy |-> raw_energy,
         raw_carbon_emitted |-> raw_carbon_emitted,
         produced |-> [energy |-> 0,
                       is_meter_down |-> ~Truthy(raw_energy),
                       previous_hash |-> ZeroHash,
                       co2_saved |-> 0,
                       is_co2_down |-> (raw_carbon_emitted.kind = "None")]]

\* a builder that adds the last meter read to every reading
ReadProductionDataAlwaysAdds(energy_source, carbon_source, last_hash, last_state) ==
    LET raw_energy == FetchInputData(energy_source)
        raw_carbon_emitted == FetchInputData(carbon_source)
        energy == IF Truthy(raw_energy)
                  THEN raw_energy.energy + last_state.last_meter_read
                  ELSE 0
    IN  [kind |-> "ProductionFileData",
         raw_energy |-> raw_energy,
         raw_carbon_emitted |-> raw_carbon_emitted,
         produced |-> [energy |-> energy,
                       is_meter_down |-> ~Truthy(raw_energy),
                       previous_hash |-> last_hash,
                       co2_saved |-> IF Truthy(raw_carbon_emitted)
                                     THEN IntTrunc(energy
                                            * raw_carbon_emitted.accumulated_co2
                                            * Kilo, Co2Denom)
                                     ELSE 0,
                       is_co2_down |-> raw_carbon_emitted = None]]

\* read_production_data(config, last_hash, last_state)
ReadProductionData(energy_source, carbon_source, last_hash, last_state) ==
    LET raw_energy == FetchInputData(energy_source)
        raw_carbon_emitted == FetchInputData(carbon_source)
        energy == IF Truthy(raw_energy)
                  THEN IF ~raw_energy.is_accumulated
                       THEN raw_energy.energy + last_state.last_meter_read
                       ELSE raw_energy.energy
                  ELSE 0
        is_meter_down == ~Truthy(raw_energy)
        co2_saved == IF Truthy(raw_carbon_emitted)
                     THEN IntTrunc(energy * raw_carbon_emitted.accumulated_co2
                                     * Kilo, Co2Denom)
                     ELSE 0
    IN  [kind |-> "ProductionFileData",
         raw_energy |-> raw_energy,
         raw_carbon_emitted |-> raw_carbon_emitted,
         produced |-> [energy |-> energy,
                       is_meter_down |-> is_meter_down,
                       previous_hash |-> last_hash,
                       co2_saved |-> co2_saved,
                       is_co2_down |-> (raw_carbon_emitted.kind = "None")]]

\* a builder that adds the last meter read even without a reading
ReadConsumptionDataCarriesOn(energy_source, last_hash, last_state) ==
    LET raw_energy == FetchInputData(energy_source)
    IN  [kind |-> "ConsumptionFileData",
         raw_energy |-> raw_energy,
         consumed |-> [energy |-> IF Truthy(raw_energy)
                                  THEN raw_energy.energy
                                  ELSE last_state.last_meter_read,
                       previous_hash |-> last_hash,
                       is_meter_down |-> ~Truthy(raw_energy)]]

\* read_consumption_data(config, last_hash, last_state)
ReadConsumptionData(energy_source, last_hash, last_state) ==
    LET raw_energy == FetchInputData(energy_source)
        energy == IF Truthy(raw_energy)
                  THEN IF ~raw_energy.is_accumulated
                       THEN raw_energy.energy + last_state.last_meter_read
                       ELSE raw_energy.energy
                  ELSE 0
        is_meter_down == ~Truthy(raw_energy)
    IN  [kind |-> "ConsumptionFileData",
         raw_energy |-> raw_energy,
         consumed |-> [energy |-> energy,
                       previous_hash |-> last_hash,
                       is_meter_down |-> is_meter_down]]

\* the derived sub-record of a payload of either variant
Derived(data) ==
    IF data.kind = "ProductionFileData" THEN data.produced ELSE data.consumed

\* what an ExternalDataSource of the configuration can answer
LastStates == {[last_meter_read |-> 12]}
Reliable == [energy |-> {EnergyData(5, FALSE)},
             carbon_emission |-> {CarbonData(25)},
             last_state |-> LastStates]
Flaky == [energy |-> {Raises, NotExternalData, EnergyData(5, FALSE)},
          carbon_emission |-> {Raises, CarbonData(25)},
          last_state |-> LastStates]
\* every answer of the sources over a small range of readings: energies
\* with and without self-accumulation, carbon factors of 0.0020, 0.0025
\* and 0.0026, last meter reads of 0 and 12
Readings == [energy |-> {Raises, NotExternalData}
                        \cup {EnergyData(e, a) : e \in {0, 3, 5, 10},
                                                 a \in BOOLEAN},
             carbon_emission |-> {Raises, NotExternalData}
                        \cup {CarbonData(c) : c \in {0, 20, 25, 26}},
             last_state |-> {[last_meter_read |-> m] : m \in {0, 12}}]

\* ------------------------------------------------------------------ state
VARIABLES
    now,         \* the wall clock, in ticks
    config,      \* InputConfiguration: the answers each source can give
    stores,      \* the DiskStorage instances of this behaviour
    dirs,        \* the variant sub-directories that exist under path
    files,       \* payload files: path -> text
    chain_file,  \* the store file: whether it exists, and its pickle stream
    memory,      \* DiskStorage.__memory of each instance
    pc,          \* where each instance's running call stands
    frame,       \* the locals of the running call
    result,      \* each instance's last call: what it returned or raised
    before,      \* __memory and the store file when the last call began
    driver,      \* the caller's last_hash, the payload it has built and
                 \* what the sources answered for it
    calls,       \* add_to_chain calls and chain assignments started
    incidents,   \* file-system errors and process stops so far
    clean        \* every call so far was an add_to_chain that returned, a
                 \* get_last_hash or a build, and no process stopped in one

env == <<config, stores>>
disk == <<dirs, files, chain_file>>
budget == <<calls, incidents, clean>>

vars == <<now, config, stores, dirs, files, chain_file, memory, pc, frame,
          result, before, driver, calls, incidents, clean>>

NoFrame == [op |-> "none", data |-> None, prefix |-> "",
            file_name |-> <<"", 0>>, saves |-> 0]
NoResult == [op |-> "none", raised |-> "no"]
NoSources == [energy |-> None, carbon_emission |-> None, last_state |-> None]
NoDriver == [last_hash |-> ZeroHash, fresh |-> FALSE, data |-> None,
             head_hash |-> ZeroHash, sources |-> NoSources]
NoChainFile == [exists |-> FALSE, bytes |-> <<>>]

Snapshot(s) == [memory |-> memory[s], chain_file |-> chain_file]

\* the state after DiskStorage(chain_file_name, path_to_files) on a
\* directory without a store file (lines 25-29)
InitFrom(ss, cfg, caller) ==
    /\ now = 0
    /\ config = cfg
    /\ stores = ss
    /\ dirs = {}
    /\ files = [p \in Paths |-> Absent]
    /\ chain_file = NoChainFile
    /\ memory = [s \in Instances |-> None]
    /\ pc = [s \in Instances |-> IF s \in ss THEN "idle" ELSE "unused"]
    /\ frame = [s \in Instances |-> NoFrame]
    /\ result = [s \in Instances |-> NoResult]
    /\ before = [s \in Instances |->
                    [memory |-> None, chain_file |-> NoChainFile]]
    /\ driver = [s \in Instances |-> caller]
    /\ calls = 0
    /\ incidents = 0
    /\ clean = TRUE

InitWith(ss, cfg) == InitFrom(ss, cfg, NoDriver)

Init == InitWith({1}, Reliable)

\* os.path.exists(path) for a payload file
Exists(path) == files[path][1] # "absent"

\* a call ends: back to the caller, with what it returned or raised
Return(s, res) ==
    /\ pc' = [pc EXCEPT ![s] = "idle"]
    /\ frame' = [frame EXCEPT ![s] = NoFrame]
    /\ result' = [result EXCEPT ![s] = res]

\* a file-system call of the running call raises OSError
Raise(s, at) ==
    /\ incidents < MaxIncidents
    /\ incidents' = incidents + 1
    /\ Return(s, [op |-> frame[s].op, raised |-> "OSError", at |-> at])
    /\ clean' = FALSE
    /\ UNCHANGED <<now, env, before, driver, calls>>

\* ------------------------------------------------------------- the clock
\* The clock is read at lines 52 and 87 only, so it is enough to let it
\* advance right before one of these reads.
Tick ==
    /\ now < MaxNow
    /\ \E s \in stores : pc[s] \in {"save_file_open", "new_link"}
    /\ now' = now + 1
    /\ UNCHANGED <<env, disk, memory, pc, frame, result, before, driver,
                   budget>>

\* ---------------------------------------------------------- add_to_chain
\* a __save_file that knows one sub-directory only
PrefixProductionOnly(data) == ProductionDir

\* __save_file, lines 80-83: the sub-directory of the payload's variant
Prefix(data) ==
    IF data.kind = "ProductionFileData" THEN ProductionDir
    ELSE ConsumptionDir

\* add_to_chain is called with the payload the driver built; __save_file
\* picks the sub-directory and creates it if absent (lines 51, 80-85)
AddToChain(s) ==
    /\ pc[s] = "idle"
    /\ driver[s].data # None
    /\ calls < MaxCalls
    /\ calls' = calls + 1
    /\ dirs' = dirs \cup {Prefix(driver[s].data)}
    /\ pc' = [pc EXCEPT ![s] = "save_file_open"]
    /\ frame' = [frame EXCEPT ![s] =
                    [op |-> "add_to_chain", data |-> driver[s].data,
                     prefix |-> Prefix(driver[s].data),
                     file_name |-> <<"", 0>>, saves |-> 0]]
    /\ before' = [before EXCEPT ![s] = Snapshot(s)]
    /\ driver' = [driver EXCEPT ![s].data = None, ![s].fresh = FALSE,
                                ![s].sources = NoSources]
    /\ UNCHANGED <<now, env, files, chain_file, memory, result, incidents,
                   clean>>

\* os.makedirs(prefix) raises: nothing was created
AddToChainMakedirsFails(s) ==
    /\ pc[s] = "idle"
    /\ driver[s].data # None
    /\ calls < MaxCalls
    /\ Prefix(driver[s].data) \notin dirs
    /\ incidents < MaxIncidents
    /\ incidents' = incidents + 1
    /\ calls' = calls + 1
    /\ result' = [result EXCEPT ![s] =
                    [op |-> "add_to_chain", raised |-> "OSError",
                     at |-> "makedirs"]]
    /\ before' = [before EXCEPT ![s] = Snapshot(s)]
    /\ driver' = [driver EXCEPT ![s].data = None, ![s].fresh = FALSE,
                                ![s].sources = NoSources]
    /\ clean' = FALSE
    /\ UNCHANGED <<now, env, disk, memory, pc, frame>>

\* __save_file, lines 86-88: the name from the clock, open(file_name, 'w+')
SaveFileOpen(s) ==
    /\ pc[s] = "save_file_open"
    /\ LET file_name == FileName(frame[s].prefix, now)
       IN  /\ files' = [files EXCEPT ![file_name] = EmptyText]
           /\ frame' = [frame EXCEPT ![s].file_name = file_name]
    /\ pc' = [pc EXCEPT ![s] = "save_file_dump"]
    /\ UNCHANGED <<now, env, dirs, chain_file, memory, result, before,
                   driver, budget>>

\* an open(file_name, 'w+') whose error is swallowed: the call goes on
\* with the name of a file it never created
SaveFileOpenSwallowed(s) ==
    /\ pc[s] = "save_file_open"
    /\ incidents < MaxIncidents
    /\ incidents' = incidents + 1
    /\ frame' = [frame EXCEPT ![s].file_name = FileName(frame[s].prefix, now)]
    /\ pc' = [pc EXCEPT ![s] = "new_link"]
    /\ UNCHANGED <<now, env, disk, memory, result, before, driver, calls,
                   clean>>

\* open(file_name, 'w+') raises: no file is created or truncated
SaveFileOpenFails(s) ==
    /\ pc[s] = "save_file_open"
    /\ Raise(s, "open")
    /\ UNCHANGED <<disk, memory>>

\* __save_file, lines 89-90: json.dump, close, return file_name
SaveFileDump(s) ==
    /\ pc[s] = "save_file_dump"
    /\ files' = [files EXCEPT ![frame[s].file_name] = JsonDump(frame[s].data)]
    /\ pc' = [pc EXCEPT ![s] = "new_link"]
    /\ UNCHANGED <<now, env, dirs, chain_file, memory, frame, result, before,
                   driver, budget>>

\* json.dump raises: the file stays empty or holds the start of the text
SaveFileDumpFails(s) ==
    /\ pc[s] = "save_file_dump"
    /\ \E text \in {EmptyText, JsonCut(frame[s].data)} :
          files' = [files EXCEPT ![frame[s].file_name] = text]
    /\ Raise(s, "json.dump")
    /\ UNCHANGED <<dirs, chain_file, memory>>

\* a __chain_append that ignores None
ChainAppendIgnoresNone(s, chain_link) ==
    memory' = [memory EXCEPT ![s] =
                  IF chain_link = None THEN memory[s] ELSE chain_link]

\* __chain_append, line 73
ChainAppend(s, chain_link) == memory' = [memory EXCEPT ![s] = chain_link]

\* a new link that does not point back at the current head
NewLinkForgetsHead(s) ==
    /\ pc[s] = "new_link"
    /\ memory' = [memory EXCEPT ![s] =
                     ChainLink(ChainFile(frame[s].file_name, now), None)]
    /\ pc' = [pc EXCEPT ![s] = "save_memory_open"]
    /\ frame' = [frame EXCEPT ![s].saves = 2]
    /\ UNCHANGED <<now, env, disk, result, before, driver, budget>>

\* a new link that takes its file name from the clock again, not from
\* what __save_file returned
NewLinkRenames(s) ==
    /\ pc[s] = "new_link"
    /\ memory' = [memory EXCEPT ![s] =
                     ChainLink(ChainFile(<<frame[s].prefix, now>>, now),
                               memory[s])]
    /\ pc' = [pc EXCEPT ![s] = "save_memory_open"]
    /\ frame' = [frame EXCEPT ![s].saves = 2]
    /\ UNCHANGED <<now, env, disk, result, before, driver, budget>>

\* a new link that takes the place of a head naming the same file
NewLinkReplacesSameFile(s) ==
    /\ pc[s] = "new_link"
    /\ LET chain_data == ChainFile(frame[s].file_name, now)
           last_link == IF Truthy(memory[s])
                           /\ memory[s].data.file = frame[s].file_name
                        THEN memory[s].last_link
                        ELSE memory[s]
       IN  ChainAppend(s, ChainLink(chain_data, last_link))
    /\ pc' = [pc EXCEPT ![s] = "save_memory_open"]
    /\ frame' = [frame EXCEPT ![s].saves = 2]
    /\ UNCHANGED <<now, env, disk, result, before, driver, budget>>

\* add_to_chain, lines 52-54: the new link in front of the current head
NewLink(s) ==
    /\ pc[s] = "new_link"
    /\ LET chain_data == ChainFile(frame[s].file_name, now)
           new_link == ChainLink(chain_data, memory[s])
       IN  ChainAppend(s, new_link)
    /\ pc' = [pc EXCEPT ![s] = "save_memory_open"]
    /\ frame' = [frame EXCEPT ![s].saves = 2]
    /\ UNCHANGED <<now, env, disk, result, before, driver, budget>>

\* ----------------------------------------------------------- __save_memory
\* line 77, open(self.chain_file, 'wb'): the store file is cut to nothing
SaveMemoryOpen(s) ==
    /\ pc[s] = "save_memory_open"
    /\ chain_file' = [exists |-> TRUE, bytes |-> <<>>]
    /\ pc' = [pc EXCEPT ![s] = "save_memory_dump"]
    /\ UNCHANGED <<now, env, dirs, files, memory, frame, result, before,
                   driver, budget>>

\* open(self.chain_file, 'wb') raises: the store file is untouched
SaveMemoryOpenFails(s) ==
    /\ pc[s] = "save_memory_open"
    /\ Raise(s, "open chain_file")
    /\ UNCHANGED <<disk, memory>>

\* line 77, pickle.dump under way: the first part of the stream has
\* reached the file, the rest has not
SaveMemoryDumpPart(s) ==
    /\ pc[s] = "save_memory_dump"
    /\ chain_file.bytes = <<>>
    /\ \E k \in Cuts(PickleDumps(memory[s])) :
          chain_file' = [exists |-> TRUE,
                         bytes |-> SubSeq(PickleDumps(memory[s]), 1, k)]
    /\ UNCHANGED <<now, env, dirs, files, memory, pc, frame, result, before,
                   driver, budget>>

\* a __save_memory that writes the head the call started from
SaveMemoryDumpStale(s) ==
    /\ pc[s] = "save_memory_dump"
    /\ chain_file' = [exists |-> TRUE,
                      bytes |-> PickleDumps(before[s].memory)]
    /\ IF frame[s].saves > 1
       THEN /\ pc' = [pc EXCEPT ![s] = "save_memory_open"]
            /\ frame' = [frame EXCEPT ![s].saves = @ - 1]
            /\ result' = result
       ELSE Return(s, [op |-> "add_to_chain", raised |-> "no",
                       file_name |-> frame[s].file_name,
                       data |-> frame[s].data])
    /\ UNCHANGED <<now, env, dirs, files, memory, before, driver, budget>>

\* line 77, pickle.dump(self.__memory, ...): the whole structure is written;
\* __chain_append's save (line 74) is followed by add_to_chain's (line 55)
SaveMemoryDump(s) ==
    /\ pc[s] = "save_memory_dump"
    /\ chain_file' = [exists |-> TRUE, bytes |-> PickleDumps(memory[s])]
    /\ IF frame[s].saves > 1
       THEN /\ pc' = [pc EXCEPT ![s] = "save_memory_open"]
            /\ frame' = [frame EXCEPT ![s].saves = @ - 1]
            /\ result' = result
       ELSE Return(s, IF frame[s].op = "add_to_chain"
                      THEN [op |-> "add_to_chain", raised |-> "no",
                            file_name |-> frame[s].file_name,
                            data |-> frame[s].data]
                      ELSE [op |-> frame[s].op, raised |-> "no"])
    /\ UNCHANGED <<now, env, dirs, files, memory, before, driver, budget>>

\* pickle.dump raises: the store file keeps what had reached it
SaveMemoryDumpFails(s) ==
    /\ pc[s] = "save_memory_dump"
    /\ Raise(s, "pickle.dump")
    /\ UNCHANGED <<disk, memory>>

\* ---------------------------------------------------------- get_last_hash
\* a get_last_hash that hashes the file name instead of the file
LastHashOfName(chain, fs) ==
    IF Truthy(chain)
    THEN HashAddress(<<"json", [kind |-> chain.data.file[1]]>>)
    ELSE ZeroHash

\* lines 63-70: the address of the head's file, or the sentinel
LastHash(chain, fs) ==
    IF Truthy(chain) THEN HashAddress(fs[chain.data.file]) ELSE ZeroHash

\* a get_last_hash that opens the head's file for writing
GetLastHashTruncates(s) ==
    /\ pc[s] = "idle"
    /\ driver[s].data = None
    /\ Truthy(memory[s]) => Exists(memory[s].data.file)
    /\ result' = [result EXCEPT ![s] =
                    [op |-> "get_last_hash", raised |-> "no",
                     hash |-> LastHash(memory[s], files)]]
    /\ driver' = [driver EXCEPT ![s].last_hash = LastHash(memory[s], files),
                                ![s].fresh = TRUE]
    /\ files' = IF Truthy(memory[s])
                THEN [files EXCEPT ![memory[s].data.file] = EmptyText]
                ELSE files
    /\ UNCHANGED <<now, env, dirs, chain_file, memory, pc, frame, before,
                   budget>>

\* the caller asks before it builds a payload, not while it holds one
GetLastHash(s) ==
    /\ pc[s] = "idle"
    /\ driver[s].data = None
    /\ Truthy(memory[s]) => Exists(memory[s].data.file)
    /\ result' = [result EXCEPT ![s] =
                    [op |-> "get_last_hash", raised |-> "no",
                     hash |-> LastHash(memory[s], files)]]
    /\ driver' = [driver EXCEPT ![s].last_hash = LastHash(memory[s], files),
                                ![s].fresh = TRUE]
    /\ UNCHANGED <<now, env, disk, memory, pc, frame, before, budget>>

\* ------------------------------------------------------- the chain property
\* a setter without the check of lines 41-42
ChainSetterAccepts(s, chain_link) ==
    /\ pc[s] = "idle"
    /\ calls < MaxCalls
    /\ calls' = calls + 1
    /\ ChainAppend(s, chain_link)
    /\ pc' = [pc EXCEPT ![s] = "save_memory_open"]
    /\ frame' = [frame EXCEPT ![s] =
                    [op |-> "chain.setter", data |-> None, prefix |-> "",
                     file_name |-> <<"", 0>>, saves |-> 1]]
    /\ before' = [before EXCEPT ![s] = Snapshot(s)]
    /\ clean' = FALSE
    /\ UNCHANGED <<now, env, disk, result, driver, incidents>>

\* chain.setter, lines 41-42: a value other than None is refused
ChainSetterRaises(s, chain_link) ==
    /\ pc[s] = "idle"
    /\ calls < MaxCalls
    /\ chain_link # None
    /\ calls' = calls + 1
    /\ result' = [result EXCEPT ![s] =
                    [op |-> "chain.setter", raised |-> "AttributeError",
                     at |-> "setter"]]
    /\ before' = [before EXCEPT ![s] = Snapshot(s)]
    /\ clean' = FALSE
    /\ UNCHANGED <<now, env, disk, memory, pc, frame, driver, incidents>>

\* chain.setter, line 43: None goes through __chain_append
ChainSetterNone(s) ==
    /\ pc[s] = "idle"
    /\ calls < MaxCalls
    /\ calls' = calls + 1
    /\ ChainAppend(s, None)
    /\ pc' = [pc EXCEPT ![s] = "save_memory_open"]
    /\ frame' = [frame EXCEPT ![s] =
                    [op |-> "chain.setter", data |-> None, prefix |-> "",
                     file_name |-> <<"", 0>>, saves |-> 1]]
    /\ before' = [before EXCEPT ![s] = Snapshot(s)]
    /\ clean' = FALSE
    /\ UNCHANGED <<now, env, disk, result, driver, incidents>>

\* the links a caller may try to assign: a link of its own making, or the
\* head it has just read from the property
ForeignLinks(s) ==
    {ChainLink(ChainFile(<<ProductionDir, 0>>, 0), None)}
        \cup (IF Truthy(memory[s]) THEN {memory[s]} ELSE {})

\* ------------------------------------------------------------- the driver
\* the driver builds a payload (one at a time, while a call is left to
\* append it) from the sources' answers and the last_hash it holds: what
\* get_last_hash last returned to it, however long ago (the sentinel if it
\* never asked)
BuildProduction(s) ==
    /\ pc[s] = "idle"
    /\ driver[s].data = None
    /\ calls < MaxCalls
    /\ \E energy_source \in config.energy,
          carbon_source \in config.carbon_emission,
          last_state \in config.last_state :
          driver' = [driver EXCEPT
             ![s].data = ReadProductionData(energy_source, carbon_source,
                                            driver[s].last_hash, last_state),
             ![s].head_hash = LastHash(memory[s], files),
             ![s].sources = [energy |-> energy_source,
                             carbon_emission |-> carbon_source,
                             last_state |-> last_state]]
    /\ UNCHANGED <<now, env, disk, memory, pc, frame, result, before, budget>>

BuildConsumption(s) ==
    /\ pc[s] = "idle"
    /\ driver[s].data = None
    /\ calls < MaxCalls
    /\ \E energy_source \in config.energy, last_state \in config.last_state :
          driver' = [driver EXCEPT
             ![s].data = ReadConsumptionData(energy_source,
                                             driver[s].last_hash, last_state),
             ![s].head_hash = LastHash(memory[s], files),
             ![s].sources = [energy |-> energy_source,
                             carbon_emission |-> None,
                             last_state |-> last_state]]
    /\ UNCHANGED <<now, env, disk, memory, pc, frame, result, before, budget>>

\* --------------------------------------------------------------- __init__
\* lines 27-33: what the constructor makes of the store file
Restore(cf) ==
    IF ~cf.exists THEN [raised |-> "no", obj |-> None]
    ELSE LET load == PickleLoad(cf.bytes)
         IN  IF load.raised = "EOFError" THEN [raised |-> "no", obj |-> None]
             ELSE load

\* the process stops wherever it stands and a new one constructs the store
Restart(s) ==
    /\ pc[s] # "unused"
    /\ incidents < MaxIncidents
    /\ incidents' = incidents + 1
    /\ LET r == Restore(chain_file)
       IN  /\ memory' = [memory EXCEPT ![s] = r.obj]
           /\ pc' = [pc EXCEPT ![s] =
                        IF r.raised = "no" THEN "idle" ELSE "failed"]
           /\ result' = [result EXCEPT ![s] =
                            [op |-> "__init__", raised |-> r.raised,
                             at |-> "pickle.load"]]
           /\ clean' = (clean /\ pc[s] = "idle")
    /\ frame' = [frame EXCEPT ![s] = NoFrame]
    /\ driver' = [driver EXCEPT ![s] = NoDriver]
    /\ before' = [before EXCEPT ![s] = Snapshot(s)]
    /\ UNCHANGED <<now, env, disk, calls>>

\* --------------------------------------------------------- specifications
Next ==
    \/ Tick
    \/ \E s \in stores : AddToChain(s)
    \/ \E s \in stores : AddToChainMakedirsFails(s)
    \/ \E s \in stores : SaveFileOpen(s)
    \/ \E s \in stores : SaveFileOpenFails(s)
    \/ \E s \in stores : SaveFileDump(s)
    \/ \E s \in stores : SaveFileDumpFails(s)
    \/ \E s \in stores : NewLink(s)
    \/ \E s \in stores : SaveMemoryOpen(s)
    \/ \E s \in stores : SaveMemoryOpenFails(s)
    \/ \E s \in stores : SaveMemoryDumpPart(s)
    \/ \E s \in stores : SaveMemoryDump(s)
    \/ \E s \in stores : SaveMemoryDumpFails(s)
    \/ \E s \in stores : GetLastHash(s)
    \/ \E s \in stores : ChainSetterNone(s)
    \/ \E s \in stores : \E chain_link \in ForeignLinks(s) :
          ChainSetterRaises(s, chain_link)
    \/ \E s \in stores : BuildProduction(s)
    \/ \E s \in stores : BuildConsumption(s)
    \/ \E s \in stores : Restart(s)

Spec == Init /\ [][Next]_vars

\* A serial driver: it asks get_last_hash, builds one payload with the
\* answer, appends it, and only then asks again.  The sources may fail;
\* the file system does not.
InitDriver == InitWith({1}, Flaky)

NextDriver ==
    \/ Tick
    \/ \E s \in stores : ~driver[s].fresh /\ GetLastHash(s)
    \/ \E s \in stores : driver[s].fresh /\ BuildProduction(s)
    \/ \E s \in stores : driver[s].fresh /\ BuildConsumption(s)
    \/ \E s \in stores : AddToChain(s)
    \/ \E s \in stores : SaveFileOpen(s)
    \/ \E s \in stores : SaveFileDump(s)
    \/ \E s \in stores : NewLink(s)
    \/ \E s \in stores : SaveMemoryOpen(s)
    \/ \E s \in stores : SaveMemoryDumpPart(s)
    \/ \E s \in stores : SaveMemoryDump(s)

SpecDriver == InitDriver /\ [][NextDriver]_vars

\* two processes, each with its own DiskStorage on the same directory and
\* store file, constructed before either appends; their calls (appends of
\* production payloads) interleave step by step and nothing fails
InitTwo == InitWith(Instances, Reliable)

NextTwo ==
    \/ Tick
    \/ \E s \in stores : BuildProduction(s)
    \/ \E s \in stores : AddToChain(s)
    \/ \E s \in stores : SaveFileOpen(s)
    \/ \E s \in stores : SaveFileDump(s)
    \/ \E s \in stores : NewLink(s)
    \/ \E s \in stores : SaveMemoryOpen(s)
    \/ \E s \in stores : SaveMemoryDump(s)

SpecTwo == InitTwo /\ [][NextTwo]_vars

\* the builders alone: one call of either builder on every answer of the
\* sources, every last state and both kinds of last_hash
LastHashes == {ZeroHash, HashAddress(EmptyText)}

InitBuild ==
    \E last_hash \in LastHashes :
        InitFrom({1}, Readings, [NoDriver EXCEPT !.last_hash = last_hash])

NextBuild ==
    \/ \E s \in stores : BuildProduction(s)
    \/ \E s \in stores : BuildConsumption(s)

SpecBuild == InitBuild /\ [][NextBuild]_vars

\* ------------------------------------------------------------ properties
IsSuffix(a, b) ==
    /\ Len(a) <= Len(b)
    /\ SubSeq(b, Len(b) - Len(a) + 1, Len(b)) = a

NewestFirst(links) ==
    \A i, j \in 1..Len(links) :
        i < j => links[i].timestamp >= links[j].timestamp

\* the links a new process would find in the store file
PersistedLinks(cf) ==
    LET load == PickleLoad(cf.bytes)
    IN  IF cf.exists /\ load.raised = "no" THEN Links(load.obj) ELSE <<>>

Returned(s, op) ==
    pc[s] = "idle" /\ result[s].op = op /\ result[s].raised = "no"

Raised(s, op, ats) ==
    /\ pc[s] = "idle"
    /\ result[s].op = op
    /\ result[s].raised # "no"
    /\ result[s].at \in ats

\* C1: when add_to_chain(p) has returned, the head is a new link whose file
\* is the one just written for p (in p's sub-directory, holding p's text)
\* and whose last_link is the head from before the call; after n calls
\* that all returned on an empty store, n links are reachable from the
\* head, newest first.
C1_AppendInstallsHead ==
    \A s \in stores :
        /\ Returned(s, "add_to_chain") =>
              /\ Truthy(memory[s])
              /\ memory[s].data.file = result[s].file_name
              /\ memory[s].data.file[1] = Prefix(result[s].data)
              /\ files[memory[s].data.file] = JsonDump(result[s].data)
              /\ memory[s].last_link = before[s].memory
        /\ (pc[s] = "idle" /\ clean) =>
              /\ Len(Links(memory[s])) = calls
              /\ NewestFirst(Links(memory[s]))

C1_Witness ==
    \E s \in stores :
        /\ Returned(s, "add_to_chain")
        /\ clean
        /\ Len(Links(memory[s])) = 2
        /\ Truthy(before[s].memory)

\* C2 as claimed: no public call, assignment to the chain property
\* included, shortens or empties the chain: the links reachable in memory
\* and in the store file before a call are still reachable after it
\* (stated for behaviours without any file-system error or process stop).
C2_AppendOnlyUnderAllCalls ==
    \A s \in stores :
        (pc[s] = "idle" /\ incidents = 0
           /\ result[s].op \in {"add_to_chain", "chain.setter"}) =>
            /\ IsSuffix(Links(before[s].memory), Links(memory[s]))
            /\ result[s].raised = "no" =>
                  IsSuffix(PersistedLinks(before[s].chain_file),
                           PersistedLinks(chain_file))

\* C2 amended: add_to_chain (returning or raising) and a refused assignment
\* keep every link that was reachable from the in-memory head, unchanged
\* and in place, and an add_to_chain that returns leaves the store file
\* holding exactly the in-memory chain; assigning None to the chain
\* property empties the chain, in memory and in the store file.
C2_AppendOnlyButForNone ==
    \A s \in stores :
        /\ (pc[s] = "idle" /\ result[s].op = "add_to_chain") =>
              IsSuffix(Links(before[s].memory), Links(memory[s]))
        /\ Raised(s, "chain.setter", {"setter"}) =>
              /\ memory[s] = before[s].memory
              /\ chain_file = before[s].chain_file
        /\ Returned(s, "add_to_chain") =>
              /\ chain_file.exists
              /\ PersistedLinks(chain_file) = Links(memory[s])
              /\ Len(Links(memory[s])) = Len(Links(before[s].memory)) + 1
        /\ Returned(s, "chain.setter") =>
              /\ memory[s] = None
              /\ chain_file.exists
              /\ PickleLoad(chain_file.bytes) = [raised |-> "no", obj |-> None]

C2_Witness ==
    \E s \in stores :
        /\ Returned(s, "chain.setter")
        /\ Truthy(before[s].memory)
        /\ PersistedLinks(before[s].chain_file) # <<>>

\* C3: a process constructed after add_to_chain calls that all returned
\* (or after none) starts with the head the previous process held, link
\* for link; without a store file it starts with None.
C3_RoundTrip ==
    \A s \in stores :
        result[s].op = "__init__" =>
            /\ clean =>
                  /\ result[s].raised = "no"
                  /\ pc[s] = "idle" => memory[s] = before[s].memory
            /\ (pc[s] = "idle" /\ ~chain_file.exists) => memory[s] = None

C3_Witness ==
    \E s \in stores :
        /\ Returned(s, "__init__")
        /\ clean
        /\ Len(Links(memory[s])) = 2
        /\ memory[s].data.timestamp # memory[s].last_link.data.timestamp

\* C4: get_last_hash returns the sentinel exactly when the chain is empty,
\* and otherwise 'Qm' with the digest of what the head's file holds now;
\* as long as nothing is written it keeps returning that value.
C4_LastHash ==
    \A s \in stores :
        Returned(s, "get_last_hash") =>
            /\ result[s].hash = ZeroHash <=> ~Truthy(memory[s])
            /\ Truthy(memory[s]) =>
                  /\ result[s].hash[1] = "Qm"
                  /\ result[s].hash = HashAddress(files[memory[s].data.file])
            /\ driver[s].fresh => driver[s].last_hash = result[s].hash

C4_Witness ==
    \E s \in stores :
        /\ Returned(s, "get_last_hash")
        /\ calls = 1
        /\ Truthy(memory[s])
        /\ files[memory[s].data.file][1] = "json"
        /\ result[s].hash # ZeroHash

\* C5 as claimed: when writing the store file fails in add_to_chain, the
\* in-memory head is the head from before the call.
C5_HeadNotAdvancedOnStoreFailure ==
    \A s \in stores :
        Raised(s, "add_to_chain", {"open chain_file", "pickle.dump"}) =>
            memory[s] = before[s].memory

\* C6: when making the sub-directory or writing the payload file fails,
\* add_to_chain leaves the in-memory head and the store file as they
\* were, and the store file never holds a head that names a missing file.
C6_NoPartialStateOnFileFailure ==
    /\ \A s \in stores :
          Raised(s, "add_to_chain", {"makedirs", "open", "json.dump"}) =>
              /\ memory[s] = before[s].memory
              /\ chain_file = before[s].chain_file
    /\ LET persisted == PersistedLinks(chain_file)
       IN  \A i \in 1..Len(persisted) : Exists(persisted[i].file)

C6_Witness ==
    \E s \in stores :
        /\ Raised(s, "add_to_chain", {"json.dump"})
        /\ Truthy(memory[s])
        /\ PersistedLinks(chain_file) # <<>>

\* C7 as claimed: the constructor never raises, whatever a damaged store
\* file holds.
C7_InitNeverFails ==
    \A s \in stores :
        result[s].op = "__init__" => result[s].raised = "no"

\* C8 as claimed: at every step of an add_to_chain that follows a completed
\* one, with no file-system error and no process stop so far, the store
\* file holds the complete head from before the call or the complete head
\* after it, so that a process constructed now would find one of the two.
C8_StoreFileAlwaysComplete ==
    \A s \in stores :
        (frame[s].op = "add_to_chain" /\ incidents = 0
           /\ Truthy(before[s].memory)) =>
            /\ chain_file.bytes \in {PickleDumps(before[s].memory),
                                     PickleDumps(memory[s])}
            /\ Restore(chain_file).obj \in {before[s].memory, memory[s]}

\* C9: every file named by a link reachable from an in-memory head or
\* from the store file exists, and while a new head is being saved its
\* file already holds the whole payload.
C9_ReachableFilesExist ==
    /\ \A s \in stores :
          /\ \A i \in 1..Len(Links(memory[s])) :
                Exists(Links(memory[s])[i].file)
          /\ (frame[s].op = "add_to_chain"
                /\ pc[s] \in {"save_memory_open", "save_memory_dump"}) =>
                files[memory[s].data.file] = JsonDump(frame[s].data)
    /\ LET persisted == PersistedLinks(chain_file)
       IN  \A i \in 1..Len(persisted) :
              files[persisted[i].file][1] # "absent"

C9_Witness ==
    \E s \in stores :
        /\ Returned(s, "__init__")
        /\ Len(Links(memory[s])) = 2
        /\ memory[s].data.file # memory[s].last_link.data.file
        /\ memory[s].data.file[2] # Strftime(memory[s].data.timestamp)

\* C10: the builders copy last_hash into previous_hash; with a serial
\* driver the previous_hash of a payload, built or being appended, is the
\* address of the head's file as it was when the payload was built, the
\* sentinel when there was no head.
C10_PreviousHashIsHeadHash ==
    \A s \in stores :
        /\ driver[s].data # None =>
              /\ Derived(driver[s].data).previous_hash = driver[s].last_hash
              /\ Derived(driver[s].data).previous_hash = driver[s].head_hash
              /\ ~Truthy(memory[s]) =>
                    Derived(driver[s].data).previous_hash = ZeroHash
              /\ Truthy(memory[s]) =>
                    Derived(driver[s].data).previous_hash =
                        HashAddress(files[memory[s].data.file])
        /\ frame[s].op = "add_to_chain" =>
              /\ Derived(frame[s].data).previous_hash = driver[s].head_hash
              /\ ~Truthy(before[s].memory) =>
                    Derived(frame[s].data).previous_hash = ZeroHash

C10_Witness ==
    \E s \in stores :
        /\ driver[s].data # None
        /\ driver[s].data.kind = "ProductionFileData"
        /\ Truthy(memory[s])
        /\ Derived(driver[s].data).previous_hash # ZeroHash

\* C11: whatever the two sources answer (a reading, an exception, a value
\* that is no reading), the builders return a payload: a source that gave
\* no reading is recorded as None and the other source's reading is kept
\* and used; without an energy reading the payload has is_meter_down,
\* energy 0 and previous_hash = last_hash, and add_to_chain of such a
\* payload returns with the chain one link longer, its head on that payload.
C11_SensorFailureDegrades ==
    \A s \in stores :
        /\ driver[s].data # None =>
              LET data == driver[s].data
                  src == driver[s].sources
              IN  /\ data.raw_energy =
                        (IF src.energy.kind = "ExternalData"
                         THEN src.energy ELSE None)
                  /\ Derived(data).is_meter_down
                        = (src.energy.kind # "ExternalData")
                  /\ Derived(data).is_meter_down =>
                        /\ Derived(data).energy = 0
                        /\ Derived(data).previous_hash = driver[s].last_hash
                  /\ data.kind = "ProductionFileData" =>
                        /\ data.raw_carbon_emitted =
                              (IF src.carbon_emission.kind = "ExternalData"
                               THEN src.carbon_emission ELSE None)
                        /\ data.produced.is_co2_down
                              = (src.carbon_emission.kind # "ExternalData")
        /\ (Returned(s, "add_to_chain")
              /\ Derived(result[s].data).is_meter_down) =>
              /\ Truthy(memory[s])
              /\ memory[s].last_link = before[s].memory
              /\ files[memory[s].data.file] = JsonDump(result[s].data)
              /\ PersistedLinks(chain_file) = Links(memory[s])

C11_Witness ==
    \E s \in stores :
        /\ Returned(s, "add_to_chain")
        /\ result[s].data.kind = "ProductionFileData"
        /\ result[s].data.produced.is_meter_down
        /\ ~result[s].data.produced.is_co2_down
        /\ result[s].data.produced.previous_hash # ZeroHash
        /\ Truthy(before[s].memory)

\* C12: with an energy reading r the payload's energy is r.energy when the
\* device accumulates by itself and r.energy + last_state.last_meter_read
\* otherwise, and is_meter_down is False; without a reading energy is 0,
\* is_meter_down is True and the payload is the same for every last_state;
\* read_production_data and read_consumption_data agree on both fields.
C12_EnergyAccumulation ==
    \A s \in stores :
        driver[s].data # None =>
            LET data == driver[s].data
                src == driver[s].sources
                r == src.energy
                other == IF data.kind = "ProductionFileData"
                         THEN ReadConsumptionData(r, driver[s].last_hash,
                                                  src.last_state)
                         ELSE ReadProductionData(r, Raises,
                                                 driver[s].last_hash,
                                                 src.last_state)
            IN  /\ r.kind = "ExternalData" =>
                      /\ Derived(data).energy =
                            (IF r.is_accumulated
                             THEN r.energy
                             ELSE r.energy + src.last_state.last_meter_read)
                      /\ ~Derived(data).is_meter_down
                /\ r.kind # "ExternalData" =>
                      /\ Derived(data).energy = 0
                      /\ Derived(data).is_meter_down
                      /\ \A last_state \in config.last_state :
                            Derived(data) =
                               Derived(IF data.kind = "ProductionFileData"
                                       THEN ReadProductionData(r,
                                               src.carbon_emission,
                                               driver[s].last_hash, last_state)
                                       ELSE ReadConsumptionData(r,
                                               driver[s].last_hash, last_state))
                /\ Derived(other).energy = Derived(data).energy
                /\ Derived(other).is_meter_down = Derived(data).is_meter_down

C12_Witness ==
    \E s \in stores :
        /\ driver[s].data # None
        /\ driver[s].data.kind = "ProductionFileData"
        /\ driver[s].sources.energy = EnergyData(5, FALSE)
        /\ driver[s].sources.last_state.last_meter_read = 12
        /\ driver[s].data.produced.energy = 17

\* the integers nearest to num / den (two of them at an exact half)
Nearest(num, den) ==
    {q \in {num \div den, (num \div den) + 1} :
        2 * (IF q * den >= num THEN q * den - num ELSE num - q * den) <= den}

\* C13: with a carbon reading co2_saved is energy * accumulated_co2 * 1000
\* rounded to the nearest integer and is_co2_down is False; without one
\* co2_saved is 0 and is_co2_down is True.
C13_Co2SavedIsRounded ==
    \A s \in stores :
        (driver[s].data # None /\ driver[s].data.kind = "ProductionFileData") =>
            LET data == driver[s].data
                c == driver[s].sources.carbon_emission
            IN  /\ c.kind = "ExternalData" =>
                      /\ data.produced.co2_saved \in
                            Nearest(data.produced.energy * c.accumulated_co2
                                      * Kilo, Co2Denom)
                      /\ ~data.produced.is_co2_down
                /\ c.kind # "ExternalData" =>
                      /\ data.produced.co2_saved = 0
                      /\ data.produced.is_co2_down

\* C14: assigning a link (anything but None) to the chain property raises
\* AttributeError and changes neither the in-memory head nor any file; the
\* only step of a running process that makes the head a link is
\* add_to_chain's, which puts the new link in front of the old head (the
\* constructor installs what the store file holds).
C14_OnlyAddToChainInstallsLinks ==
    [][\A s \in stores :
          /\ (calls' # calls /\ pc'[s] = "idle"
                /\ result'[s].op = "chain.setter"
                /\ result'[s].raised = "AttributeError") =>
                UNCHANGED <<memory, disk>>
          /\ (memory'[s] # memory[s] /\ Truthy(memory'[s])) =>
                \/ /\ frame[s].op = "add_to_chain"
                   /\ pc[s] = "new_link"
                   /\ memory'[s].last_link = memory[s]
                   /\ memory'[s].data.file = frame[s].file_name
                \/ /\ incidents' # incidents
                   /\ result'[s].op = "__init__"
                   /\ memory'[s] = Restore(chain_file).obj]_vars

C14_Witness ==
    \E s \in stores :
        /\ Raised(s, "chain.setter", {"setter"})
        /\ calls = MaxCalls
        /\ Truthy(memory[s])
        /\ PersistedLinks(chain_file) = Links(memory[s])

\* the head and its predecessor name one file: two appends of one variant
\* whose file names were taken within one second
SameSecondPair(s) ==
    /\ Returned(s, "add_to_chain")
    /\ Truthy(before[s].memory)
    /\ memory[s].data.file = before[s].memory.data.file

\* C15 as claimed: two appends of one variant within one second write the
\* same path, the file holds the second payload, and the chain has no two
\* distinct entries for them.
C15_SameSecondOneEntry ==
    \A s \in stores :
        SameSecondPair(s) =>
            /\ files[memory[s].data.file] = JsonDump(result[s].data)
            /\ \A i, j \in 1..Len(Links(memory[s])) :
                  i # j => Links(memory[s])[i].file # Links(memory[s])[j].file

\* C15 amended: two appends of one variant within one second write the
\* same path and the file holds the second payload only; the chain, in
\* memory and in the store file, still gains a link for each append, both
\* naming that one file.
C15_SameSecondOneFileTwoLinks ==
    \A s \in stores :
        SameSecondPair(s) =>
            /\ files[memory[s].data.file] = JsonDump(result[s].data)
            /\ memory[s].last_link = before[s].memory
            /\ Len(Links(memory[s])) = Len(Links(before[s].memory)) + 1
            /\ Links(memory[s])[1].file = Links(memory[s])[2].file
            /\ PersistedLinks(chain_file) = Links(memory[s])

C15_Witness ==
    \E s \in stores :
        /\ SameSecondPair(s)
        /\ Derived(result[s].data).previous_hash # ZeroHash
        /\ memory[s].data.timestamp # memory[s].last_link.data.timestamp
        /\ Len(PersistedLinks(chain_file)) = 2

\* the instance has not started a call since it was constructed
Untouched(s) == pc[s] = "idle" /\ result[s].op = "none"

\* C16: while only one of two instances on a store appends, every append
\* that has returned is in the store file: the file holds that instance's
\* chain, one link per call made.  (With both appending, a state is
\* reachable where both calls have returned and the store file holds one
\* of the two new links only: C16_Witness.)
C16_SingleWriterLosesNothing ==
    \A s \in stores :
        (Returned(s, "add_to_chain")
           /\ \A o \in stores \ {s} : Untouched(o)) =>
            /\ PersistedLinks(chain_file) = Links(memory[s])
            /\ Len(PersistedLinks(chain_file)) = calls
            /\ \A i \in 1..calls : Exists(PersistedLinks(chain_file)[i].file)

C16_Witness ==
    /\ \A s \in Instances : Returned(s, "add_to_chain")
    /\ calls = 2
    /\ Len(PersistedLinks(chain_file)) = 1
    /\ memory[1] # memory[2]
    /\ \E s \in Instances : PersistedLinks(chain_file) = Links(memory[s])

\* C17: a get_last_hash call, on an empty chain or not, changes neither
\* the in-memory head nor the store file nor any payload file or
\* directory.
C17_GetLastHashReadsOnly ==
    [][\A s \in stores :
          (result'[s].op = "get_last_hash"
             /\ (result'[s] # result[s]
                   \/ (driver'[s].fresh /\ ~driver[s].fresh))) =>
              /\ UNCHANGED <<memory, disk>>
              /\ result'[s].hash = LastHash(memory'[s], files')]_vars

C17_Witness ==
    \E s \in stores :
        /\ Returned(s, "get_last_hash")
        /\ result[s].hash # ZeroHash
        /\ Len(Links(memory[s])) = 2
        /\ PersistedLinks(chain_file) = Links(memory[s])
        /\ files[memory[s].data.file][1] = "json"

\* the sub-directory the claim assigns to a payload
DirOf(data) ==
    IF data.kind = "ProductionFileData" THEN "production/" ELSE "consumption/"

\* C18: add_to_chain writes files only under the variant's sub-directory
\* (production/ for a ProductionFileData, consumption/ for anything else),
\* which exists by then; the link it adds names that file and stands in
\* front of the current head whatever the variants; so a production and a
\* consumption append of one second leave two files, each with its own
\* payload.
C18_VariantDirectories ==
    /\ [][\A p \in Paths :
             files'[p] # files[p] =>
                \E s \in stores :
                    /\ frame[s].op = "add_to_chain"
                    /\ p[1] = DirOf(frame[s].data)
                    /\ p[1] \in dirs]_vars
    /\ [](\A s \in stores :
             Returned(s, "add_to_chain") =>
                /\ memory[s].data.file[1] = DirOf(result[s].data)
                /\ memory[s].last_link = before[s].memory
                /\ files[memory[s].data.file] = JsonDump(result[s].data)
                /\ (Truthy(before[s].memory) /\ incidents = 0
                      /\ before[s].memory.data.file[1] # memory[s].data.file[1]) =>
                      /\ files[before[s].memory.data.file][1] = "json"
                      /\ DirOf(files[before[s].memory.data.file][2])
                            = before[s].memory.data.file[1])

C18_Witness ==
    \E s \in stores :
        /\ Returned(s, "add_to_chain")
        /\ result[s].data.kind = "ConsumptionFileData"
        /\ Truthy(before[s].memory)
        /\ memory[s].data.file = <<"consumption/", 0>>
        /\ memory[s].last_link.data.file = <<"production/", 0>>
        /\ files[<<"production/", 0>>][2].kind = "ProductionFileData"
        /\ files[<<"consumption/", 0>>] = JsonDump(result[s].data)
        /\ dirs = {"production/", "consumption/"}

\* C19: when a public operation (the constructor, add_to_chain,
\* get_last_hash, chain = None) has returned normally, unpickling the store
\* file gives the in-memory head; the one exception is a store without a
\* store file, whose in-memory head is None.
C19_MemoryAgreesWithStoreFile ==
    \A s \in stores :
        (pc[s] = "idle" /\ result[s].raised = "no"
           /\ result[s].op \in {"__init__", "add_to_chain", "get_last_hash",
                                "chain.setter"}) =>
            IF chain_file.exists
            THEN PickleLoad(chain_file.bytes)
                    = [raised |-> "no", obj |-> memory[s]]
            ELSE memory[s] = None

\* C20 as claimed: with the serial driver, between calls, the payload file
\* of every link of the chain carries as previous_hash the address of what
\* the predecessor's file holds now, and the oldest link's file carries
\* the sentinel, however the appends fall in time.
C20_LedgerVerifiable ==
    \A s \in stores :
        pc[s] = "idle" =>
            LET links == Links(memory[s])
            IN  \A i \in 1..Len(links) :
                    /\ files[links[i].file][1] = "json"
                    /\ Derived(files[links[i].file][2]).previous_hash =
                          (IF i < Len(links)
                           THEN HashAddress(files[links[i + 1].file])
                           ELSE ZeroHash)

\* no two links name the same payload file
DistinctFiles(links) ==
    \A i, j \in 1..Len(links) : i # j => links[i].file # links[j].file

\* C20 amended: with the serial driver, between calls, as long as no two
\* links of the chain name the same file (no two appends of one variant
\* took their names within one second), the payload file of every link
\* carries as previous_hash the address of what the predecessor's file
\* holds now, and the oldest link's file carries the sentinel.
C20_LedgerVerifiableApart ==
    \A s \in stores :
        (pc[s] = "idle" /\ DistinctFiles(Links(memory[s]))) =>
            LET links == Links(memory[s])
            IN  \A i \in 1..Len(links) :
                    /\ files[links[i].file][1] = "json"
                    /\ Derived(files[links[i].file][2]).previous_hash =
                          (IF i < Len(links)
                           THEN HashAddress(files[links[i + 1].file])
                           ELSE ZeroHash)

C20_Witness ==
    \E s \in stores :
        /\ pc[s] = "idle"
        /\ Len(Links(memory[s])) = 2
        /\ DistinctFiles(Links(memory[s]))
        /\ memory[s].data.file[1] = memory[s].last_link.data.file[1]
        /\ Derived(files[memory[s].data.file][2]).previous_hash
              = HashAddress(files[memory[s].last_link.data.file])

====
